---------------------------- MODULE Spec2Model ----------------------------
(***************************************************************************)
(* A model of releng/devkit.py, the devkit bundler: the header flattener   *)
(* (generate_header / ingest_header), the manual archive merge and the     *)
(* symbol isolation of generate_library_unix, and generate_devkit itself.  *)
(*                                                                         *)
(* Text is modelled by TLA+ strings, so that startswith, endswith, strip   *)
(* and the include pattern are computed on characters as the code does.    *)
(***************************************************************************)
EXTENDS Naturals, Integers, Sequences, FiniteSets, TLC

VARIABLES
    \* ---- header flattener (generate_header lines 104-114, ingest_header)
    header_files,            \* the dependency universe, umbrella header first
    files,                   \* the headers on disk: path -> sequence of lines
    processed_header_files,  \* the set of already-inlined header paths
    devkit_header_lines,     \* the output line list ("result" in ingest_header)
    stack,                   \* the active ingest_header calls: <<header, next line>>
    fpc,                     \* where generate_header stands
    origin,                  \* history: for each output line, <<header, line number>>
    opened,                  \* history: how many times each header was opened
    inlined_at               \* history: header -> <<including header, line number>>

fvars == <<header_files, files, processed_header_files, devkit_header_lines,
           stack, fpc, origin, opened, inlined_at>>

VARIABLES
    \* ---- manual extract/repack merge (generate_library_unix lines 333-351)
    library_paths,    \* the input archives in order: each the set of its member names
    mpc,              \* where the merge stands
    lib_index,        \* the index of library_path in library_paths
    combined_dir,     \* [exists, files]: files are [name, from], from = <<archive, member>>
    scratch_dirs,     \* per input archive, [exists, files]: files are member names
    object_names,     \* the set of names already given out
    pending,          \* the objects of os.listdir(scratch_dir) not yet moved
    output_archive,   \* [exists, members]: members is a sequence of [name, from]
    previous_archive  \* history: the archive an earlier merge of the same inputs made

mvars == <<library_paths, mpc, lib_index, combined_dir, scratch_dirs, object_names,
           pending, output_archive, previous_archive>>

VARIABLES
    \* ---- generate_devkit and generate_library_unix
    kit,                          \* the requested product
    kpc,                          \* where generate_devkit stands
    failure,                      \* what ended the run, "" while none
    input_symbols,                \* the symbols of the input archives
    library_file,                 \* output_path: [exists, stale, symbols]
    objcopy,                      \* probe_env(rc, "echo $OBJCOPY"), "?" before
    thirdparty_symbol_mappings,   \* the Rename Mapping
    flattened_header,             \* the joined lines of the flattener
    header_file,                  \* <kit>.h in the output directory: [exists, text]
    example_file                  \* <kit>-example.c in the output directory: [exists]

kvars == <<kit, kpc, failure, input_symbols, library_file, objcopy,
           thirdparty_symbol_mappings, flattened_header, header_file, example_file>>

vars == <<fvars, mvars, kvars>>

(***************************************************************************)
(* Strings.                                                                *)
(***************************************************************************)
Char(s, i) == SubSeq(s, i, i)

startswith(s, prefix) ==
    Len(s) >= Len(prefix) /\ SubSeq(s, 1, Len(prefix)) = prefix

endswith(s, suffix) ==
    Len(s) >= Len(suffix) /\ SubSeq(s, Len(s) - Len(suffix) + 1, Len(s)) = suffix

IsSpace(c) == c \in {" ", "\t", "\n", "\r"}

RECURSIVE lstrip(_)
lstrip(s) ==
    IF Len(s) > 0 /\ IsSpace(Char(s, 1)) THEN lstrip(SubSeq(s, 2, Len(s))) ELSE s

RECURSIVE rstrip(_)
rstrip(s) ==
    IF Len(s) > 0 /\ IsSpace(Char(s, Len(s))) THEN rstrip(SubSeq(s, 1, Len(s) - 1)) ELSE s

strip(s) == rstrip(lstrip(s))

(***************************************************************************)
(* INCLUDE_PATTERN = re.compile("#include\s+[<\"](.*?)[>\"]"), used with   *)
(* match(): anchored at the start only, at least one blank after           *)
(* "#include", then < or ", then the shortest text up to the first > or ". *)
(***************************************************************************)
RECURSIVE SkipSpace(_, _)
SkipSpace(s, i) ==
    IF i <= Len(s) /\ IsSpace(Char(s, i)) THEN SkipSpace(s, i + 1) ELSE i

RECURSIVE FindClose(_, _)
FindClose(s, i) ==
    IF i > Len(s) THEN 0
    ELSE IF Char(s, i) \in {">", "\""} THEN i
    ELSE FindClose(s, i + 1)

NoMatch == [matched |-> FALSE, name |-> ""]

INCLUDE_PATTERN_match(s) ==
    LET kw == "#include"
        j  == SkipSpace(s, Len(kw) + 1)
    IN  IF ~startswith(s, kw) THEN NoMatch
        ELSE IF j = Len(kw) + 1 \/ j > Len(s) THEN NoMatch
        ELSE IF Char(s, j) \notin {"<", "\""} THEN NoMatch
        ELSE LET k == FindClose(s, j + 1)
             IN  IF k = 0 THEN NoMatch
                 ELSE [matched |-> TRUE, name |-> SubSeq(s, j + 1, k - 1)]

(***************************************************************************)
(* The header flattener.                                                   *)
(***************************************************************************)
\* Bound: the number of include lines of all headers on disk together.
MaxIncludes == 4

UmbrellaPath == "/r/a.h"
Paths == {"/r/a.h", "/r/b.h", "/r/sub/c.h"}

\* The dependency universes: the compiler's dependency listing, umbrella first.
\* In the second one c.h is a header outside the product tree.
Universes == { <<"/r/a.h", "/r/b.h", "/r/sub/c.h">>, <<"/r/a.h", "/r/b.h">> }

\* The text of a header: every header on disk opens with one line of its own
\* and closes with another (its include guard), the include lines in between.
HeadLine(h) == "#ifndef " \o h \o "\n"
TailLine(h) == "#endif /* " \o h \o " */\n"

\* The directive lines of the headers. The pattern matches the first three; it
\* does not match the last one, which the C preprocessor takes as an include.
IncludeLines ==
    { "#include \"a.h\"\n", "#include \"b.h\"\n", "  #include <c.h>\n", "# include <b.h>\n" }

HeaderText(h, includes) == <<HeadLine(h)>> \o includes \o <<TailLine(h)>>

AllLines == IncludeLines \cup {HeadLine(h) : h \in Paths} \cup {TailLine(h) : h \in Paths}

\* match = INCLUDE_PATTERN.match(line.strip()), for every line on disk.
LineMatch == [l \in AllLines |-> INCLUDE_PATTERN_match(strip(l))]

Frame(h) == [header |-> h, pos |-> 1]

\* os.path.dirname and os.path.join for the two extra roots of generate_header.
RECURSIVE dirname(_)
dirname(p) ==
    IF Len(p) = 0 THEN ""
    ELSE IF Char(p, Len(p)) = "/" THEN SubSeq(p, 1, Len(p) - 1)
    ELSE dirname(SubSeq(p, 1, Len(p) - 1))

path_join(d, name) == d \o "/" \o name

\* The model's file system holds one candidate extra root (guminspectorserver.h
\* for frida-gumjs, frida-selinux.h for frida-core on android).
ExtraRootName == "sub/c.h"

KitsAndHosts == { <<"frida-gum", "linux-x86_64">>, <<"frida-gumjs", "linux-x86_64">>,
                  <<"frida-core", "linux-x86_64">>, <<"frida-core", "android-arm64">> }

HasExtraRoot(product, host) ==
    \/ product = "frida-gumjs"
    \/ product = "frida-core" /\ startswith(host, "android-")

\* for other_header in all_header_files: if other_header.endswith("/" + name)
\* The index of the first entry that matches, 0 when none does.
RECURSIVE find_from(_, _, _)
find_from(name, all, i) ==
    IF i > Len(all) THEN 0
    ELSE IF endswith(all[i], "/" \o name) THEN i
    ELSE find_from(name, all, i + 1)

find_header(name, all) == find_from(name, all, 1)

\* A slip: the included header is queued behind the including one.
push_below(stk, frame) == <<frame>> \o stk

Push(stk, frame) == Append(stk, frame)

Top == stack[Len(stack)]

Pop(stk) == SubSeq(stk, 1, Len(stk) - 1)

\* for line in f: the iterator moves on before the line is handled.
Advance(stk) == [stk EXCEPT ![Len(stk)].pos = @ + 1]

HasLine == stack # <<>> /\ Top.pos <= Len(files[Top.header])

CurLine == files[Top.header][Top.pos]

CurMatch == LineMatch[CurLine]

CurTarget == find_header(CurMatch.name, header_files)

\* A slip: the processed set is overwritten and holds the last header only.
mark_processed_replaces(processed, h) == {h}

\* A slip: the header is ingested without being added to the processed set.
mark_processed_forgets(processed, h) == processed

mark_processed(processed, h) == processed \cup {h}

emit(result, line) == Append(result, line)

NoDir == [exists |-> FALSE, files |-> {}]

NoArchive == [exists |-> FALSE, members |-> <<>>]

NoLibrary == [exists |-> FALSE, stale |-> FALSE, symbols |-> {}]

NoHeader == [exists |-> FALSE, text |-> ""]

NoExample == [exists |-> FALSE]

\* The variables of generate_devkit while only a part of it is run.
KitIdle ==
    /\ kit = ""
    /\ kpc = "idle"
    /\ failure = ""
    /\ input_symbols = {}
    /\ library_file = NoLibrary
    /\ objcopy = "?"
    /\ thirdparty_symbol_mappings = <<>>
    /\ flattened_header = ""
    /\ header_file = NoHeader
    /\ example_file = NoExample

\* The merge variables of a run that does not merge.
MergeIdle ==
    /\ library_paths = <<>>
    /\ mpc = "idle"
    /\ lib_index = 0
    /\ combined_dir = NoDir
    /\ scratch_dirs = <<>>
    /\ object_names = {}
    /\ pending = {}
    /\ output_archive = NoArchive
    /\ previous_archive = NoArchive

FlattenInit ==
    /\ header_files \in Universes
    /\ \E la, lb, lc \in 0..MaxIncludes :
         /\ la + lb + lc <= MaxIncludes
         /\ \E ia \in [1..la -> IncludeLines],
               ib \in [1..lb -> IncludeLines],
               ic \in [1..lc -> IncludeLines] :
              files = [h \in Paths |->
                         HeaderText(h, IF h = "/r/a.h" THEN ia
                                       ELSE IF h = "/r/b.h" THEN ib ELSE ic)]
    /\ processed_header_files = {}
    /\ devkit_header_lines = <<>>
    /\ stack = <<>>
    /\ fpc = "start"
    /\ origin = <<>>
    /\ opened = [h \in Paths |-> 0]
    /\ inlined_at = [h \in Paths |-> <<>>]
    /\ MergeIdle
    /\ KitIdle

\* generate_header, lines 104-107: the umbrella header is header_files[0], the
\* processed set is seeded with it, and ingest_header is called on it.
generate_header_begin ==
    /\ fpc = "start"
    /\ fpc' = "umbrella"
    /\ devkit_header_lines' = <<>>
    /\ processed_header_files' = {header_files[1]}
    /\ stack' = Push(<<>>, Frame(header_files[1]))
    /\ opened' = [opened EXCEPT ![header_files[1]] = @ + 1]
    /\ UNCHANGED <<header_files, files, origin, inlined_at>>
    /\ UNCHANGED <<mvars, kvars>>

\* ingest_header, line 172: a line that is no include directive is copied.
copy_line ==
    /\ HasLine
    /\ ~CurMatch.matched
    /\ devkit_header_lines' = emit(devkit_header_lines, CurLine)
    /\ origin' = Append(origin, <<Top.header, Top.pos>>)
    /\ stack' = Advance(stack)
    /\ UNCHANGED <<header_files, files, processed_header_files, fpc, opened, inlined_at>>
    /\ UNCHANGED <<mvars, kvars>>

\* A slip: an include line that matches the pattern is never appended.
keep_include_dropped ==
    /\ HasLine
    /\ CurMatch.matched
    /\ CurTarget = 0
    /\ stack' = Advance(stack)
    /\ UNCHANGED <<header_files, files, processed_header_files, devkit_header_lines,
                   fpc, origin, opened, inlined_at>>
    /\ UNCHANGED <<mvars, kvars>>

\* ingest_header, lines 169-170: no entry of the universe ends with "/" + name.
keep_include ==
    /\ HasLine
    /\ CurMatch.matched
    /\ CurTarget = 0
    /\ devkit_header_lines' = emit(devkit_header_lines, CurLine)
    /\ origin' = Append(origin, <<Top.header, Top.pos>>)
    /\ stack' = Advance(stack)
    /\ UNCHANGED <<header_files, files, processed_header_files, fpc, opened, inlined_at>>
    /\ UNCHANGED <<mvars, kvars>>

\* ingest_header, lines 163-168: the first matching entry is not yet processed:
\* it is added to the processed set and ingested before the next line is read.
inline_header ==
    /\ HasLine
    /\ CurMatch.matched
    /\ CurTarget # 0
    /\ header_files[CurTarget] \notin processed_header_files
    /\ processed_header_files' = mark_processed(processed_header_files, header_files[CurTarget])
    /\ stack' = Push(Advance(stack), Frame(header_files[CurTarget]))
    /\ opened' = [opened EXCEPT ![header_files[CurTarget]] = @ + 1]
    /\ inlined_at' = [inlined_at EXCEPT ![header_files[CurTarget]] = <<Top.header, Top.pos>>]
    /\ UNCHANGED <<header_files, files, devkit_header_lines, fpc, origin>>
    /\ UNCHANGED <<mvars, kvars>>

\* ingest_header, lines 163-168: the first matching entry was processed before:
\* inline is True, nothing is ingested and the line is not appended.
drop_include ==
    /\ HasLine
    /\ CurMatch.matched
    /\ CurTarget # 0
    /\ header_files[CurTarget] \in processed_header_files
    /\ stack' = Advance(stack)
    /\ UNCHANGED <<header_files, files, processed_header_files, devkit_header_lines,
                   fpc, origin, opened, inlined_at>>
    /\ UNCHANGED <<mvars, kvars>>

\* ingest_header: the for loop is exhausted, the file is closed, the call returns.
end_of_header ==
    /\ stack # <<>>
    /\ Top.pos > Len(files[Top.header])
    /\ stack' = Pop(stack)
    /\ UNCHANGED <<header_files, files, processed_header_files, devkit_header_lines,
                   fpc, origin, opened, inlined_at>>
    /\ UNCHANGED <<mvars, kvars>>

\* generate_header, lines 108-113: an extra root is ingested with the same
\* processed set; it is neither looked up in the set nor added to it.
ingest_extra_root ==
    /\ fpc = "umbrella"
    /\ stack = <<>>
    /\ \E kh \in KitsAndHosts : HasExtraRoot(kh[1], kh[2])
    /\ fpc' = "extra"
    /\ stack' = Push(<<>>, Frame(path_join(dirname(UmbrellaPath), ExtraRootName)))
    /\ opened' = [opened EXCEPT ![path_join(dirname(UmbrellaPath), ExtraRootName)] = @ + 1]
    /\ UNCHANGED <<header_files, files, processed_header_files, devkit_header_lines,
                   origin, inlined_at>>
    /\ UNCHANGED <<mvars, kvars>>

\* generate_header, line 114: the lines are joined.
join_lines ==
    /\ stack = <<>>
    /\ \/ fpc = "extra"
       \/ fpc = "umbrella" /\ \E kh \in KitsAndHosts : ~HasExtraRoot(kh[1], kh[2])
    /\ fpc' = "done"
    /\ UNCHANGED <<header_files, files, processed_header_files, devkit_header_lines,
                   stack, origin, opened, inlined_at>>
    /\ UNCHANGED <<mvars, kvars>>

FlattenNext ==
    \/ generate_header_begin
    \/ copy_line
    \/ keep_include
    \/ inline_header
    \/ drop_include
    \/ end_of_header
    \/ ingest_extra_root
    \/ join_lines

SpecFlatten == FlattenInit /\ [][FlattenNext]_vars

\* generate_header is straight-line sequential code on one thread: while a
\* step of it is possible, one is taken.
SpecFlattenLive == SpecFlatten /\ WF_vars(FlattenNext)

(***************************************************************************)
(* Claims about the header flattener (specification SpecFlatten).          *)
(***************************************************************************)
\* ingest_header(umbrella_header, ...) of line 107 has returned.
UmbrellaDone == fpc = "umbrella" /\ stack = <<>>

Resolvable(l) == LineMatch[l].matched /\ find_header(LineMatch[l].name, header_files) # 0

TargetOf(l) == header_files[find_header(LineMatch[l].name, header_files)]

Range(f) == {f[i] : i \in DOMAIN f}

\* The universe headers that the include lines of header h resolve to.
Targets(h) == {TargetOf(l) : l \in {x \in Range(files[h]) : Resolvable(x)}}

RECURSIVE ReachFrom(_)
ReachFrom(S) ==
    LET N == S \cup UNION {Targets(h) : h \in S}
    IN  IF N = S THEN S ELSE ReachFrom(N)

\* The headers reached from the umbrella header by resolving include lines.
Reach == ReachFrom({header_files[1]})

CountIn(seq, x) == Cardinality({k \in DOMAIN seq : seq[k] = x})

\* How many include lines of reached headers resolve to header H.
IncludesOf(H) ==
    Cardinality({hi \in Reach \X (1..(MaxIncludes + 2)) :
                    /\ hi[2] <= Len(files[hi[1]])
                    /\ Resolvable(files[hi[1]][hi[2]])
                    /\ TargetOf(files[hi[1]][hi[2]]) = H})

\* C1: when the umbrella header has been flattened, every header of the
\* universe that is reached from it through include lines has been opened
\* exactly once and each of its own lines is in the output exactly once,
\* however many include lines resolve to it.
C1_NoDuplication ==
    UmbrellaDone =>
        \A H \in Reach :
            /\ opened[H] = 1
            /\ CountIn(devkit_header_lines, HeadLine(H)) = 1
            /\ CountIn(devkit_header_lines, TailLine(H)) = 1

\* A diamond and a cycle: a header other than the umbrella header that two or
\* more include lines resolve to, and that itself includes the umbrella header.
C1_Witness ==
    /\ UmbrellaDone
    /\ \E H \in Reach \ {header_files[1]} :
         /\ IncludesOf(H) >= 2
         /\ header_files[1] \in Targets(H)
         /\ CountIn(devkit_header_lines, HeadLine(H)) = 1

\* The output lines that came from header H, in output order.
RECURSIVE EmittedFrom(_, _)
EmittedFrom(H, k) ==
    IF k = 0 THEN <<>>
    ELSE IF origin[k][1] = H THEN Append(EmittedFrom(H, k - 1), devkit_header_lines[k])
    ELSE EmittedFrom(H, k - 1)

\* The lines of a header that are not include lines resolving into the universe.
NotInlined(l) == ~Resolvable(l)

\* C2: every line of an opened header that is not an include line resolving
\* into the universe (so every include line whose name matches no entry) is in
\* the output unchanged, in the order of the header; a header whose include
\* lines all name headers outside the universe flattens to its own lines.
C2_UnreachablePreserved ==
    UmbrellaDone =>
        /\ Len(origin) = Len(devkit_header_lines)
        /\ \A H \in Paths :
             opened[H] = 1 =>
                EmittedFrom(H, Len(origin)) = SelectSeq(files[H], NotInlined)
        /\ (\A l \in Range(files[header_files[1]]) : ~Resolvable(l))
              => devkit_header_lines = files[header_files[1]]

\* The umbrella header has include lines, all of them of a header outside the
\* universe, and has been flattened.
C2_Witness ==
    /\ UmbrellaDone
    /\ \E l \in Range(files[header_files[1]]) : LineMatch[l].matched
    /\ \A l \in Range(files[header_files[1]]) : ~Resolvable(l)
    /\ Len(devkit_header_lines) >= 3

\* The include lines, outermost last, inside which header D was inlined.
RECURSIVE Chain(_)
Chain(D) ==
    IF inlined_at[D] = <<>> THEN {}
    ELSE {inlined_at[D]} \cup Chain(inlined_at[D][1])

ScenarioFiles ==
    /\ header_files = <<"/r/a.h", "/r/b.h", "/r/sub/c.h">>
    /\ files["/r/a.h"] = HeaderText("/r/a.h", <<"#include \"b.h\"\n", "  #include <c.h>\n">>)
    /\ files["/r/b.h"] = HeaderText("/r/b.h", <<"  #include <c.h>\n">>)
    /\ files["/r/sub/c.h"] = HeaderText("/r/sub/c.h", <<>>)

\* C3: depth-first pre-order with first-occurrence-wins dedup. Every line of a
\* header inlined at an include line (directly or through further includes) is
\* in the output after the lines of the including header that precede the
\* include line and before those that follow it; no include line that resolves
\* into the universe is itself in the output; and in the a.h/b.h/c.h scenario
\* c.h's lines come once, inside b.h's, which come inside a.h's.
C3_DepthFirstPreOrder ==
    UmbrellaDone =>
        /\ \A D \in Paths : \A at \in Chain(D) :
             \A k, m \in DOMAIN origin :
                (origin[k][1] = D /\ origin[m][1] = at[1]) =>
                    /\ origin[m][2] < at[2] => m < k
                    /\ origin[m][2] > at[2] => k < m
        /\ \A k \in DOMAIN origin : ~Resolvable(files[origin[k][1]][origin[k][2]])
        /\ ScenarioFiles =>
             devkit_header_lines =
                <<HeadLine("/r/a.h"), HeadLine("/r/b.h"), HeadLine("/r/sub/c.h"),
                  TailLine("/r/sub/c.h"), TailLine("/r/b.h"), TailLine("/r/a.h")>>

C3_Witness == UmbrellaDone /\ ScenarioFiles /\ Len(devkit_header_lines) = 6

\* While the umbrella call runs and when it has returned, no header of the
\* universe has been opened twice.
OpenedAtMostOnce ==
    fpc \in {"start", "umbrella"} =>
        \A i \in DOMAIN header_files : opened[header_files[i]] <= 1

\* C13: for every universe and include graph, self-includes and include
\* cycles (also back to the umbrella header) among them, the ingest_header
\* call on the umbrella header eventually returns, and it opens each header
\* of the universe at most once.
C13_FlatteningTerminates == <>UmbrellaDone /\ []OpenedAtMostOnce

\* The umbrella call has returned for headers with a self-include, a mutual
\* include cycle and an include of the umbrella header.
C13_Witness ==
    /\ UmbrellaDone
    /\ \E H \in Reach : H \in Targets(H)
    /\ \E G, H \in Reach : G # H /\ H \in Targets(G) /\ G \in Targets(H)
    /\ \E H \in Reach \ {header_files[1]} : header_files[1] \in Targets(H)

\* The extra root of the product has been ingested after the umbrella header.
ExtraRootDone == fpc = "extra" /\ stack = <<>>

\* C12: when the extra root has been ingested after the umbrella header with
\* the same processed set, no header's lines are in the flattened output more
\* than once, the extra root's own lines included.
C12_DedupAcrossRoots ==
    ExtraRootDone =>
        \A H \in Paths :
            /\ CountIn(devkit_header_lines, HeadLine(H)) <= 1
            /\ CountIn(devkit_header_lines, TailLine(H)) <= 1

(***************************************************************************)
(* The manual extract/repack merge of generate_library_unix, lines 333-351 *)
(* (the archiver has no MRI script mode and the host is not macos/ios).    *)
(***************************************************************************)
\* Bound: the number of input archives.
MaxArchives == 2

\* The member names an input archive may hold.
MemberNames == {"a.o", "_a.o", "b.obj"}

FlattenIdle ==
    /\ header_files = <<>>
    /\ files = <<>>
    /\ processed_header_files = {}
    /\ devkit_header_lines = <<>>
    /\ stack = <<>>
    /\ fpc = "idle"
    /\ origin = <<>>
    /\ opened = <<>>
    /\ inlined_at = <<>>

\* A slip: the name is used as it is, taken or not.
unique_object_name_unchecked(object_name, names) == object_name

\* while object_name in object_names: object_name = "_" + object_name
RECURSIVE unique_object_name(_, _)
unique_object_name(object_name, names) ==
    IF object_name \in names THEN unique_object_name("_" \o object_name, names)
    ELSE object_name

\* [name for name in os.listdir(scratch_dir) if name.endswith(".o")]
listed_objects(dir_files) == {name \in dir_files : endswith(name, ".o")}

\* shutil.move(src, dst): a file of that name in the directory is replaced.
move_into(dir_files, name, from) ==
    {f \in dir_files : f.name # name} \cup {[name |-> name, from |-> from]}

\* The orders in which list(object_names) may hand the names to the archiver.
Orders(names) ==
    {o \in [1..Cardinality(names) -> names] : \A i, j \in DOMAIN o : i # j => o[i] # o[j]}

MergeInit ==
    /\ FlattenIdle
    /\ KitIdle
    /\ \E n \in 0..MaxArchives : library_paths \in [1..n -> SUBSET MemberNames]
    /\ mpc = "start"
    /\ lib_index = 0
    /\ combined_dir = NoDir
    /\ scratch_dirs = [i \in DOMAIN library_paths |-> NoDir]
    /\ object_names = {}
    /\ pending = {}
    /\ output_archive = NoArchive
    /\ previous_archive = NoArchive

\* lines 333-334: combined_dir = tempfile.mkdtemp(); object_names = set()
merge_begin ==
    /\ mpc = "start"
    /\ combined_dir' = [exists |-> TRUE, files |-> {}]
    /\ object_names' = {}
    /\ lib_index' = 1
    /\ mpc' = "libraries"
    /\ UNCHANGED <<library_paths, scratch_dirs, pending, output_archive>>
    /\ UNCHANGED <<fvars, kvars, previous_archive>>

\* lines 337-340: the scratch directory is made, "ar x" extracts every member
\* into it, and the directory is listed.
extract_library ==
    /\ mpc = "libraries"
    /\ lib_index <= Len(library_paths)
    /\ scratch_dirs' = [scratch_dirs EXCEPT
                          ![lib_index] = [exists |-> TRUE, files |-> library_paths[lib_index]]]
    /\ pending' = listed_objects(library_paths[lib_index])
    /\ mpc' = "objects"
    /\ UNCHANGED <<library_paths, lib_index, combined_dir, object_names, output_archive>>
    /\ UNCHANGED <<fvars, kvars, previous_archive>>

\* lines 337-339: the scratch directory is made and "ar x" exits non-zero:
\* check_output raises CalledProcessError, which nothing in the file catches.
extract_fails ==
    /\ mpc = "libraries"
    /\ lib_index <= Len(library_paths)
    /\ scratch_dirs' = [scratch_dirs EXCEPT ![lib_index] = [exists |-> TRUE, files |-> {}]]
    /\ mpc' = "failed"
    /\ UNCHANGED <<library_paths, lib_index, combined_dir, object_names, pending,
                   output_archive>>
    /\ UNCHANGED <<fvars, kvars, previous_archive>>

\* lines 340-345: one round of the loop over the listed objects, which
\* os.listdir returns in arbitrary order.
move_object ==
    /\ mpc = "objects"
    /\ \E name \in pending :
         LET object_name == unique_object_name(name, object_names)
         IN  /\ object_names' = object_names \cup {object_name}
             /\ combined_dir' = [combined_dir EXCEPT
                    !.files = move_into(@, object_name, <<lib_index, name>>)]
             /\ scratch_dirs' = [scratch_dirs EXCEPT ![lib_index].files = @ \ {name}]
             /\ pending' = pending \ {name}
    /\ UNCHANGED <<library_paths, mpc, lib_index, output_archive>>
    /\ UNCHANGED <<fvars, kvars, previous_archive>>

\* line 347: shutil.rmtree(scratch_dir), then the next library_path.
remove_scratch_dir ==
    /\ mpc = "objects"
    /\ pending = {}
    /\ scratch_dirs' = [scratch_dirs EXCEPT ![lib_index] = NoDir]
    /\ lib_index' = lib_index + 1
    /\ mpc' = "libraries"
    /\ UNCHANGED <<library_paths, combined_dir, object_names, pending, output_archive>>
    /\ UNCHANGED <<fvars, kvars, previous_archive>>

\* line 349: "ar rcs output_path" + list(object_names), run in combined_dir.
\* The order of a set's elements is not fixed.
repack ==
    /\ mpc = "libraries"
    /\ lib_index > Len(library_paths)
    /\ \E order \in Orders(object_names) :
         output_archive' =
            [exists |-> TRUE,
             members |-> [k \in DOMAIN order |->
                            CHOOSE f \in combined_dir.files : f.name = order[k]]]
    /\ mpc' = "repacked"
    /\ UNCHANGED <<library_paths, lib_index, combined_dir, scratch_dirs, object_names, pending>>
    /\ UNCHANGED <<fvars, kvars, previous_archive>>

\* line 349: "ar rcs" exits non-zero and check_output raises.
repack_fails ==
    /\ mpc = "libraries"
    /\ lib_index > Len(library_paths)
    /\ mpc' = "failed"
    /\ UNCHANGED <<library_paths, lib_index, combined_dir, scratch_dirs, object_names,
                   pending, output_archive>>
    /\ UNCHANGED <<fvars, kvars, previous_archive>>

\* line 351: shutil.rmtree(combined_dir)
remove_combined_dir ==
    /\ mpc = "repacked"
    /\ combined_dir' = NoDir
    /\ mpc' = "done"
    /\ UNCHANGED <<library_paths, lib_index, scratch_dirs, object_names, pending,
                   output_archive>>
    /\ UNCHANGED <<fvars, kvars, previous_archive>>

\* generate_library_unix is run once more on the same input archives: lines
\* 296-299 unlink the archive of the earlier run, which is kept here as history.
merge_again ==
    /\ mpc = "done"
    /\ ~previous_archive.exists
    /\ previous_archive' = output_archive
    /\ output_archive' = NoArchive
    /\ object_names' = {}
    /\ lib_index' = 0
    /\ mpc' = "start"
    /\ UNCHANGED <<library_paths, combined_dir, scratch_dirs, pending>>
    /\ UNCHANGED <<fvars, kvars>>

MergeNext ==
    \/ merge_begin
    \/ extract_library
    \/ extract_fails
    \/ move_object
    \/ remove_scratch_dir
    \/ repack
    \/ repack_fails
    \/ remove_combined_dir
    \/ merge_again

SpecMerge == MergeInit /\ [][MergeNext]_vars

(***************************************************************************)
(* Claims about the manual merge (specification SpecMerge).                *)
(***************************************************************************)
InputMembers == {im \in (DOMAIN library_paths) \X MemberNames : im[2] \in library_paths[im[1]]}

ObjectMembers == {im \in InputMembers : endswith(im[2], ".o")}

MergedFrom(im) == {k \in DOMAIN output_archive.members : output_archive.members[k].from = im}

DistinctNames ==
    \A j, k \in DOMAIN output_archive.members :
        j # k => output_archive.members[j].name # output_archive.members[k].name

MergedNames == {output_archive.members[k].name : k \in DOMAIN output_archive.members}

\* name is original with "_" prepended until the name was unused: every
\* shorter variant is the name of a member of the merged archive.
RECURSIVE ResolvedFrom(_, _)
ResolvedFrom(name, original) ==
    \/ name = original
    \/ /\ Len(name) > Len(original)
       /\ Char(name, 1) = "_"
       /\ SubSeq(name, 2, Len(name)) \in MergedNames
       /\ ResolvedFrom(SubSeq(name, 2, Len(name)), original)

\* C5 as stated: the merged archive holds one member for every member of every
\* input, under pairwise distinct names.
C5_MergeTotality_AsStated ==
    mpc = "done" =>
        /\ \A im \in InputMembers : Cardinality(MergedFrom(im)) = 1
        /\ DistinctNames

\* C5 as amended: the merged archive holds exactly one member for every input
\* member whose name ends in ".o" and no other member; the names are pairwise
\* distinct, a colliding name having "_" prepended until it is unused.
C5_MergeTotality ==
    mpc = "done" =>
        /\ \A im \in ObjectMembers : Cardinality(MergedFrom(im)) = 1
        /\ \A k \in DOMAIN output_archive.members :
             /\ output_archive.members[k].from \in ObjectMembers
             /\ ResolvedFrom(output_archive.members[k].name,
                             output_archive.members[k].from[2])
        /\ DistinctNames

\* Two inputs hold a.o, so one of them is renamed, and the merge is done.
C5_Witness ==
    /\ mpc = "done"
    /\ \E k \in DOMAIN output_archive.members :
         output_archive.members[k].name # output_archive.members[k].from[2]
    /\ Cardinality(ObjectMembers) >= 3

MergeEnded == mpc \in {"done", "failed"}

\* C10: when the merge has ended, by success or by a failing archiver call, no
\* scratch directory and no combined directory is left.
C10_ScratchCleanup ==
    MergeEnded =>
        /\ ~combined_dir.exists
        /\ \A i \in DOMAIN scratch_dirs : ~scratch_dirs[i].exists

\* The member names of an archive, in member order.
NamesOf(archive) == [k \in DOMAIN archive.members |-> archive.members[k].name]

\* C11: two merges of the same ordered input archives give archives with the
\* same member names in the same member order.
C11_MergeDeterminism ==
    (mpc = "done" /\ previous_archive.exists) =>
        NamesOf(output_archive) = NamesOf(previous_archive)

(***************************************************************************)
(* Symbol isolation: get_symbols, get_thirdparty_symbol_names,             *)
(* get_thirdparty_symbol_mappings, extract_public_thirdparty_symbol_       *)
(* mappings, and the rewriting of macros in generate_header.               *)
(***************************************************************************)
\* The characters of the names in the model, in code point order.
Alphabet == "0123456789ABCDEFGHIJKLMNOPQRSTUVWXYZ_abcdefghijklmnopqrstuvwxyz"

ord(c) == CHOOSE i \in 1..Len(Alphabet) : Char(Alphabet, i) = c

\* \w of the re module, for the characters of the model.
IsWord(c) == \E i \in 1..Len(Alphabet) : Char(Alphabet, i) = c

\* a < b for str: by code points, a proper prefix first.
RECURSIVE str_less(_, _)
str_less(a, b) ==
    IF Len(b) = 0 THEN FALSE
    ELSE IF Len(a) = 0 THEN TRUE
    ELSE IF Char(a, 1) = Char(b, 1)
         THEN str_less(SubSeq(a, 2, Len(a)), SubSeq(b, 2, Len(b)))
    ELSE ord(Char(a, 1)) < ord(Char(b, 1))

\* names.sort() on a list without duplicates.
RECURSIVE sorted(_)
sorted(names) ==
    IF names = {} THEN <<>>
    ELSE LET least == CHOOSE n \in names : \A m \in names \ {n} : str_less(n, m)
         IN  <<least>> \o sorted(names \ {least})

\* text.find(sub, start): the first index >= start where sub occurs, 0 when none.
find(text, sub, start) ==
    LET hits == {i \in start..(Len(text) - Len(sub) + 1) : SubSeq(text, i, i + Len(sub) - 1) = sub}
    IN  IF hits = {} THEN 0 ELSE CHOOSE i \in hits : \A j \in hits : i <= j

\* sub in text
Contains(text, sub) == find(text, sub, 1) # 0

\* text.replace(old, new)
RECURSIVE replace(_, _, _)
replace(text, old, new) ==
    LET i == find(text, old, 1)
    IN  IF i = 0 THEN text
        ELSE SubSeq(text, 1, i - 1) \o new
                \o replace(SubSeq(text, i + Len(old), Len(text)), old, new)

\* line.split(" "): every single blank separates, so runs of blanks give "".
RECURSIVE split_blank(_)
split_blank(line) ==
    LET i == find(line, " ", 1)
    IN  IF i = 0 THEN <<line>>
        ELSE <<SubSeq(line, 1, i - 1)>> \o split_blank(SubSeq(line, i + 1, Len(line)))

\* What nm prints for an archive: a line for each member, a blank line, and a
\* line "<address> <kind> <name>" for each symbol, the address blank when the
\* symbol is undefined.
nm_lines(symbols) ==
    {"a.o:", ""} \cup
    {(IF sym.kind = "U" THEN "        " ELSE "00000000") \o " " \o sym.kind \o " " \o sym.name :
        sym \in symbols}

\* get_symbols, lines 383-395. The list is only ever turned into a set.
get_symbols(library) ==
    LET tokens(line) == split_blank(line)
    IN  {<<tokens(line)[Len(tokens(line)) - 1], tokens(line)[Len(tokens(line))]>> :
            line \in {l \in nm_lines(library) : Len(tokens(l)) >= 3}}

VisibleKinds == {"T", "D", "B", "R", "C"}

\* A slip: the underscore-prefixed variants are left out.
frida_prefixes_public_only == <<"frida", "gum">>

frida_prefixes == <<"frida", "_frida", "gum", "_gum">>

\* get_thirdparty_symbol_names, lines 374-381.
get_thirdparty_symbol_names(library) ==
    LET visible_names == sorted({kn[2] : kn \in {x \in get_symbols(library) : x[1] \in VisibleKinds}})
        thirdparty(name) == ~\E i \in DOMAIN frida_prefixes : startswith(name, frida_prefixes[i])
    IN  SelectSeq(visible_names, thirdparty)

\* A slip: a renamed form that does not start with one of the own prefixes.
get_thirdparty_symbol_mappings_underscore(library) ==
    LET names == get_thirdparty_symbol_names(library)
    IN  [i \in DOMAIN names |-> <<names[i], "_" \o names[i]>>]

\* get_thirdparty_symbol_mappings, lines 371-372.
get_thirdparty_symbol_mappings(library) ==
    LET names == get_thirdparty_symbol_names(library)
    IN  [i \in DOMAIN names |-> <<names[i], "_frida_" \o names[i]>>]

\* A slip: a prefix of the allow-list is left out.
public_prefixes_short == <<"g_", "glib_", "gobject_", "gio_", "gee_", "json_">>

public_prefixes == <<"g_", "glib_", "gobject_", "gio_", "gee_", "json_", "cs_">>

\* extract_public_thirdparty_symbol_mappings, lines 367-369.
extract_public_thirdparty_symbol_mappings(mappings) ==
    LET public(m) == \E i \in DOMAIN public_prefixes : startswith(m[1], public_prefixes[i])
    IN  SelectSeq(mappings, public)

\* objcopy --redefine-syms on the archive, line 361: every symbol whose name is
\* an original of the renames file gets the renamed name.
redefine_syms(symbols, mappings) ==
    LET renamed(name) ==
            IF \E i \in DOMAIN mappings : mappings[i][1] = name
            THEN mappings[CHOOSE i \in DOMAIN mappings : mappings[i][1] = name][2]
            ELSE name
    IN  {[kind |-> sym.kind, name |-> renamed(sym.name)] : sym \in symbols}

(***************************************************************************)
(* generate_header, lines 116-153, on a platform other than Windows: the   *)
(* configuration block, the rewriting of macros that define a renamed      *)
(* public symbol, and the block of symbol mappings.                        *)
(***************************************************************************)
RECURSIVE skip_blanks(_, _)
skip_blanks(text, i) ==
    IF i <= Len(text) /\ Char(text, i) \in {" ", "\t"} THEN skip_blanks(text, i + 1) ELSE i

sub_at(text, i, n) == IF i + n - 1 > Len(text) THEN "" ELSE SubSeq(text, i, i + n - 1)

\* ^([ \t]*#[ \t]*define[ \t]*){original}\b at the line that starts at p:
\* where the name starts and where it ends.
match_define(text, p, original) ==
    LET hash == skip_blanks(text, p)
        kw   == skip_blanks(text, hash + 1)
        name == skip_blanks(text, kw + Len("define"))
        stop == name + Len(original)
    IN  [ok |-> /\ sub_at(text, hash, 1) = "#"
                /\ sub_at(text, kw, Len("define")) = "define"
                /\ sub_at(text, name, Len(original)) = original
                /\ (stop > Len(text) \/ ~IsWord(Char(text, stop))),
         name |-> name,
         stop |-> stop]

\* ((.*\\\n)*.*)$ from index j: the index of the last character of the first
\* line from there on that does not end in a backslash.
RECURSIVE macro_end(_, _)
macro_end(text, j) ==
    LET k == find(text, "\n", j)
    IN  IF k = 0 THEN Len(text)
        ELSE IF k - 1 >= j /\ Char(text, k - 1) = "\\" THEN macro_end(text, k + 1)
        ELSE k - 1

\* re.sub(r"\b{original}\b", renamed, body), from index q of body on.
RECURSIVE word_sub(_, _, _, _)
word_sub(body, q, original, renamed) ==
    LET i == find(body, original, q)
        n == Len(original)
    IN  IF i = 0 THEN SubSeq(body, q, Len(body))
        ELSE IF /\ (i = 1 \/ ~IsWord(Char(body, i - 1)))
                /\ (i + n > Len(body) \/ ~IsWord(Char(body, i + n)))
             THEN SubSeq(body, q, i - 1) \o renamed \o word_sub(body, i + n, original, renamed)
        ELSE SubSeq(body, q, i) \o word_sub(body, i + 1, original, renamed)

\* re.sub(<the define pattern>, fixup_macro, devkit_header, flags=re.MULTILINE),
\* from the line that starts at index p on.
RECURSIVE sub_defines(_, _, _, _)
sub_defines(text, p, original, renamed) ==
    IF p > Len(text) THEN ""
    ELSE LET m == match_define(text, p, original)
         IN  IF m.ok
             THEN LET e == macro_end(text, m.stop)
                  IN  "#undef " \o original \o "\n"
                         \o SubSeq(text, p, m.name - 1) \o original
                         \o word_sub(SubSeq(text, m.stop, e), 1, original, renamed)
                         \o (IF e >= Len(text) THEN ""
                             ELSE "\n" \o sub_defines(text, e + 2, original, renamed))
             ELSE LET k == find(text, "\n", p)
                  IN  IF k = 0 THEN SubSeq(text, p, Len(text))
                      ELSE SubSeq(text, p, k) \o sub_defines(text, k + 1, original, renamed)

\* One round of the loop of lines 138-146.
fixup_macros(devkit_header, original, renamed) ==
    IF /\ ~Contains(devkit_header, "define " \o original)
       /\ ~Contains(devkit_header, "define  " \o original)
    THEN devkit_header
    ELSE sub_defines(devkit_header, 1, original, renamed)

RECURSIVE fixup_all(_, _, _)
fixup_all(devkit_header, public_mappings, i) ==
    IF i > Len(public_mappings) THEN devkit_header
    ELSE fixup_all(fixup_macros(devkit_header, public_mappings[i][1], public_mappings[i][2]),
                   public_mappings, i + 1)

\* sep.join(items)
RECURSIVE join(_, _)
join(sep, items) ==
    IF Len(items) = 0 THEN ""
    ELSE IF Len(items) = 1 THEN items[1]
    ELSE items[1] \o sep \o join(sep, Tail(items))

\* lines 116-123
gum_config(package) ==
    IF startswith(package, "frida-gum")
    THEN "#ifndef GUM_STATIC\n# define GUM_STATIC\n#endif\n\n"
    ELSE ""

\* lines 148-151
mappings_block(public_mappings) ==
    "#ifndef __FRIDA_SYMBOL_MAPPINGS__\n"
        \o "#define __FRIDA_SYMBOL_MAPPINGS__\n\n"
        \o join("\n", [i \in DOMAIN public_mappings |->
                          "#define " \o public_mappings[i][1] \o " " \o public_mappings[i][2]])
        \o "\n\n"
        \o "#endif\n\n"

\* generate_header, lines 116-153, from the joined lines of the flattener.
generate_header(package, flattened, thirdparty_mappings) ==
    LET public_mappings == extract_public_thirdparty_symbol_mappings(thirdparty_mappings)
        config == IF Len(thirdparty_mappings) > 0
                  THEN gum_config(package) \o mappings_block(public_mappings)
                  ELSE gum_config(package)
        devkit_header == IF Len(thirdparty_mappings) > 0
                         THEN fixup_all(flattened, public_mappings, 1)
                         ELSE flattened
    IN  replace(config \o devkit_header, "\r\n", "\n")

(***************************************************************************)
(* generate_devkit, lines 31-57, with generate_library_unix, lines         *)
(* 293-365, on a platform other than Windows. Every call of an external    *)
(* tool either succeeds or exits non-zero, which raises an exception that  *)
(* nothing in the file catches.                                            *)
(***************************************************************************)
\* Bound: the number of symbols of the input archives.
MaxSymbols == 3

\* DEVKITS, lines 24-28: kit -> package.
DEVKITS ==
    [k \in {"frida-gum", "frida-gumjs", "frida-core"} |->
        IF k = "frida-gum" THEN "frida-gum-1.0"
        ELSE IF k = "frida-gumjs" THEN "frida-gumjs-1.0"
        ELSE "frida-core-1.0"]

\* The kits asked for; the last one is no key of DEVKITS.
Kits == {"frida-gum", "frida-core", "frida-node"}

SymbolCandidates ==
    { [kind |-> "T", name |-> "g_object_new"],
      [kind |-> "U", name |-> "g_object_new"],
      [kind |-> "T", name |-> "frida_init"],
      [kind |-> "D", name |-> "_frida_g_free"],
      [kind |-> "T", name |-> "gum_init"],
      [kind |-> "B", name |-> "_gum_state"],
      [kind |-> "T", name |-> "sqlite3_open"],
      [kind |-> "U", name |-> "malloc"],
      [kind |-> "R", name |-> "cs_version"],
      [kind |-> "t", name |-> "g_local"] }

\* What the flattener may hand over, joined.
SampleHeaders ==
    { "void gum_init (void);\r\n",
      "#define g_object_new(t) g_object_new (t, \\\n  NULL)\nint g_object_new_count;\n" }

StaleLibrary == [exists |-> TRUE, stale |-> TRUE, symbols |-> {}]

KitInit ==
    /\ FlattenIdle
    /\ MergeIdle
    /\ kit \in Kits
    /\ kpc = "start"
    /\ failure = ""
    /\ input_symbols \in {S \in SUBSET SymbolCandidates : Cardinality(S) <= MaxSymbols}
    /\ library_file \in {NoLibrary, StaleLibrary}
    /\ objcopy = "?"
    /\ thirdparty_symbol_mappings = <<>>
    /\ flattened_header = ""
    /\ header_file = NoHeader
    /\ example_file = NoExample

\* An exception leaves generate_devkit.
raise(cause) == kpc' = "failed" /\ failure' = cause

\* line 32: package, umbrella_header = DEVKITS[kit]
generate_devkit_begin ==
    /\ kpc = "start"
    /\ kit \in DOMAIN DEVKITS
    /\ kpc' = "library"
    /\ UNCHANGED <<kit, failure, input_symbols, library_file, objcopy,
                   thirdparty_symbol_mappings, flattened_header, header_file, example_file>>
    /\ UNCHANGED <<fvars, mvars>>

\* line 32: the kit is no key of DEVKITS.
unsupported_kit ==
    /\ kpc = "start"
    /\ kit \notin DOMAIN DEVKITS
    /\ raise("KeyError")
    /\ UNCHANGED <<kit, input_symbols, library_file, objcopy,
                   thirdparty_symbol_mappings, flattened_header, header_file, example_file>>
    /\ UNCHANGED <<fvars, mvars>>

\* lines 294-310: the old library is unlinked; the environment is probed.
prepare_library ==
    /\ kpc = "library"
    /\ library_file' = NoLibrary
    /\ kpc' = "merge"
    /\ UNCHANGED <<kit, failure, input_symbols, objcopy,
                   thirdparty_symbol_mappings, flattened_header, header_file, example_file>>
    /\ UNCHANGED <<fvars, mvars>>

\* lines 294-310: the old library is unlinked; probing the environment fails
\* (no rc file for the host, pkg-config exits non-zero).
prepare_fails ==
    /\ kpc = "library"
    /\ library_file' = NoLibrary
    /\ raise("probe")
    /\ UNCHANGED <<kit, input_symbols, objcopy,
                   thirdparty_symbol_mappings, flattened_header, header_file, example_file>>
    /\ UNCHANGED <<fvars, mvars>>

\* lines 318-351: the archives are merged into output_path.
merge_archives ==
    /\ kpc = "merge"
    /\ library_file' = [exists |-> TRUE, stale |-> FALSE, symbols |-> input_symbols]
    /\ kpc' = "isolate"
    /\ UNCHANGED <<kit, failure, input_symbols, objcopy,
                   thirdparty_symbol_mappings, flattened_header, header_file, example_file>>
    /\ UNCHANGED <<fvars, mvars>>

\* lines 318-351: the archiver exits non-zero.
merge_fails ==
    /\ kpc = "merge"
    /\ raise("ar")
    /\ UNCHANGED <<kit, input_symbols, library_file, objcopy,
                   thirdparty_symbol_mappings, flattened_header, header_file, example_file>>
    /\ UNCHANGED <<fvars, mvars>>

\* lines 353-361: objcopy is set: the mappings are computed from the merged
\* archive and objcopy renames the symbols in place.
isolate_symbols ==
    /\ kpc = "isolate"
    /\ objcopy' = "objcopy"
    /\ thirdparty_symbol_mappings' = get_thirdparty_symbol_mappings(library_file.symbols)
    /\ library_file' = [library_file EXCEPT
           !.symbols = redefine_syms(@, get_thirdparty_symbol_mappings(library_file.symbols))]
    /\ kpc' = "header"
    /\ UNCHANGED <<kit, failure, input_symbols, flattened_header, header_file, example_file>>
    /\ UNCHANGED <<fvars, mvars>>

\* lines 355, 388: objcopy is set and nm exits non-zero.
nm_fails ==
    /\ kpc = "isolate"
    /\ objcopy' = "objcopy"
    /\ raise("nm")
    /\ UNCHANGED <<kit, input_symbols, library_file,
                   thirdparty_symbol_mappings, flattened_header, header_file, example_file>>
    /\ UNCHANGED <<fvars, mvars>>

\* line 361: objcopy exits non-zero; the archive stays as merged.
objcopy_fails ==
    /\ kpc = "isolate"
    /\ objcopy' = "objcopy"
    /\ thirdparty_symbol_mappings' = get_thirdparty_symbol_mappings(library_file.symbols)
    /\ raise("objcopy")
    /\ UNCHANGED <<kit, input_symbols, library_file, flattened_header, header_file,
                   example_file>>
    /\ UNCHANGED <<fvars, mvars>>

\* A slip: the mappings are computed although nothing is renamed.
skip_isolation_with_mappings ==
    /\ kpc = "isolate"
    /\ objcopy' = ""
    /\ thirdparty_symbol_mappings' = get_thirdparty_symbol_mappings(library_file.symbols)
    /\ kpc' = "header"
    /\ UNCHANGED <<kit, failure, input_symbols, library_file, flattened_header, header_file,
                   example_file>>
    /\ UNCHANGED <<fvars, mvars>>

\* lines 353-354, 362-363: $OBJCOPY is empty: thirdparty_symbol_mappings = []
skip_isolation ==
    /\ kpc = "isolate"
    /\ objcopy' = ""
    /\ thirdparty_symbol_mappings' = <<>>
    /\ kpc' = "header"
    /\ UNCHANGED <<kit, failure, input_symbols, library_file, flattened_header, header_file,
                   example_file>>
    /\ UNCHANGED <<fvars, mvars>>

\* lines 42-43: the umbrella header is not at its path.
header_missing ==
    /\ kpc = "header"
    /\ raise("Header not found")
    /\ UNCHANGED <<kit, input_symbols, library_file, objcopy,
                   thirdparty_symbol_mappings, flattened_header, header_file, example_file>>
    /\ UNCHANGED <<fvars, mvars>>

\* lines 95-97: the preprocessor that lists the dependencies exits non-zero.
preprocessor_fails ==
    /\ kpc = "header"
    /\ raise("cc")
    /\ UNCHANGED <<kit, input_symbols, library_file, objcopy,
                   thirdparty_symbol_mappings, flattened_header, header_file, example_file>>
    /\ UNCHANGED <<fvars, mvars>>

\* lines 44-46: the header is generated and written.
write_header ==
    /\ kpc = "header"
    /\ \E flattened \in SampleHeaders :
         /\ flattened_header' = flattened
         /\ header_file' = [exists |-> TRUE,
                            text |-> generate_header(DEVKITS[kit], flattened,
                                                     thirdparty_symbol_mappings)]
    /\ kpc' = "example"
    /\ UNCHANGED <<kit, failure, input_symbols, library_file, objcopy,
                   thirdparty_symbol_mappings, example_file>>
    /\ UNCHANGED <<fvars, mvars>>

\* lines 48-51, 57: the example is generated and written; the names are returned.
write_example ==
    /\ kpc = "example"
    /\ example_file' = [exists |-> TRUE]
    /\ kpc' = "done"
    /\ UNCHANGED <<kit, failure, input_symbols, library_file, objcopy,
                   thirdparty_symbol_mappings, flattened_header, header_file>>
    /\ UNCHANGED <<fvars, mvars>>

\* lines 424-425: the example asset cannot be read.
example_fails ==
    /\ kpc = "example"
    /\ raise("example")
    /\ UNCHANGED <<kit, input_symbols, library_file, objcopy,
                   thirdparty_symbol_mappings, flattened_header, header_file, example_file>>
    /\ UNCHANGED <<fvars, mvars>>

KitNext ==
    \/ generate_devkit_begin
    \/ unsupported_kit
    \/ prepare_library
    \/ prepare_fails
    \/ merge_archives
    \/ merge_fails
    \/ isolate_symbols
    \/ nm_fails
    \/ objcopy_fails
    \/ skip_isolation
    \/ header_missing
    \/ preprocessor_fails
    \/ write_header
    \/ write_example
    \/ example_fails

SpecKit == KitInit /\ [][KitNext]_vars

(***************************************************************************)
(* Claims about generate_devkit and the symbol isolation (SpecKit).        *)
(***************************************************************************)
\* C4 as stated: when a run has ended in a fatal failure, the output directory
\* holds no library, header or example written by the run; so when the
\* umbrella header is missing, nothing has been written.
C4_NoPartialOutputs ==
    kpc = "failed" =>
        /\ ~(library_file.exists /\ ~library_file.stale)
        /\ ~header_file.exists
        /\ ~example_file.exists

C6_OwnPrefixes == {"frida", "_frida", "gum", "_gum"}

Originals == {thirdparty_symbol_mappings[i][1] : i \in DOMAIN thirdparty_symbol_mappings}

\* C6: no pair of the Rename Mapping has an original name that starts with
\* frida, _frida, gum or _gum.
C6_OwnSymbolExclusion ==
    \A name \in Originals : \A prefix \in C6_OwnPrefixes : ~startswith(name, prefix)

\* The merged archive defined a symbol with an underscore-prefixed own name and
\* a third-party symbol, and the mappings were computed from it.
C6_Witness ==
    /\ kpc = "header"
    /\ objcopy = "objcopy"
    /\ [kind |-> "B", name |-> "_gum_state"] \in input_symbols
    /\ [kind |-> "T", name |-> "gum_init"] \in input_symbols
    /\ Originals # {}

Isolated == kpc \in {"header", "example", "done"} /\ objcopy = "objcopy"

\* C7: once the rename step has run on the merged archive, the Rename Mapping
\* computed from the renamed archive is empty, renaming by it changes nothing,
\* and no symbol of the archive starts with _frida__frida_.
C7_IsolationIdempotent ==
    Isolated =>
        /\ get_thirdparty_symbol_mappings(library_file.symbols) = <<>>
        /\ redefine_syms(library_file.symbols,
                         get_thirdparty_symbol_mappings(library_file.symbols))
              = library_file.symbols
        /\ \A sym \in library_file.symbols : ~startswith(sym.name, "_frida__frida_")

\* The rename step renamed two symbols or more.
C7_Witness ==
    /\ Isolated
    /\ Len(thirdparty_symbol_mappings) >= 2
    /\ \E sym \in library_file.symbols :
         sym.kind \in VisibleKinds /\ sym.name = thirdparty_symbol_mappings[1][2]

C8_AllowList == {"g_", "glib_", "gobject_", "gio_", "gee_", "json_", "cs_"}

\* The __FRIDA_SYMBOL_MAPPINGS__-guarded block of a header, "" when it has none.
MappingsBlockOf(text) ==
    LET first == find(text, "#ifndef __FRIDA_SYMBOL_MAPPINGS__\n", 1)
        last  == find(text, "#endif\n", first)
    IN  IF first = 0 \/ last = 0 THEN "" ELSE SubSeq(text, first, last + Len("#endif"))

\* C8: when the header is written, a pair of the Rename Mapping is in the
\* Public Mapping Subset, and its line "#define original _frida_original" is in
\* the guarded block of the header, if and only if original starts with a
\* prefix of the allow-list; g_object_new, when defined, is such a pair.
C8_PublicMappingSubset ==
    header_file.exists =>
        /\ \A i \in DOMAIN thirdparty_symbol_mappings :
             LET original == thirdparty_symbol_mappings[i][1]
                 renamed  == thirdparty_symbol_mappings[i][2]
                 allowed  == \E prefix \in C8_AllowList : startswith(original, prefix)
                 subset   == extract_public_thirdparty_symbol_mappings(thirdparty_symbol_mappings)
             IN  /\ renamed = "_frida_" \o original
                 /\ allowed <=> \E j \in DOMAIN subset : subset[j] = <<original, renamed>>
                 /\ allowed <=> Contains(MappingsBlockOf(header_file.text),
                                         "\n#define " \o original \o " " \o renamed \o "\n")
        /\ (objcopy = "objcopy" /\ [kind |-> "T", name |-> "g_object_new"] \in input_symbols)
              => Contains(MappingsBlockOf(header_file.text),
                          "\n#define g_object_new _frida_g_object_new\n")

\* A header written for a mapping with an allow-listed pair (cs_version) and a
\* pair that is not allow-listed (sqlite3_open).
C8_Witness ==
    /\ header_file.exists
    /\ "cs_version" \in Originals
    /\ "sqlite3_open" \in Originals
    /\ Contains(header_file.text, "#define cs_version _frida_cs_version\n")

\* C9: when $OBJCOPY is empty the run does not fail in the isolation step, the
\* Rename Mapping is empty, the merged archive keeps its symbols, the header
\* has no symbol-mapping block and no rewritten macro, and a run that goes on
\* to its end has written header, library and example.
C9_DegradedIsolation ==
    objcopy = "" =>
        /\ failure \notin {"nm", "objcopy"}
        /\ thirdparty_symbol_mappings = <<>>
        /\ library_file.exists /\ library_file.symbols = input_symbols
        /\ header_file.exists =>
             /\ ~Contains(header_file.text, "__FRIDA_SYMBOL_MAPPINGS__")
             /\ ~Contains(header_file.text, "#undef")
             /\ ~Contains(header_file.text, "_frida_")
             /\ header_file.text
                   = replace(gum_config(DEVKITS[kit]) \o flattened_header, "\r\n", "\n")
        /\ kpc = "done" =>
             header_file.exists /\ library_file.exists /\ example_file.exists

\* A run without objcopy has ended well, for an archive that defines the
\* third-party symbol g_object_new and a header with a macro of that name.
C9_Witness ==
    /\ kpc = "done"
    /\ objcopy = ""
    /\ [kind |-> "T", name |-> "g_object_new"] \in input_symbols
    /\ Contains(flattened_header, "#define g_object_new")

=============================================================================
